---- MODULE Spec2Model ----
(***************************************************************************)
(* A model of debforge: the file classifier, the directory scanner, the   *)
(* project assembler (Forge::from), the output materializer (Forge::forge *)
(* and Variables::write_file) and the architecture resolver.              *)
(*                                                                         *)
(* Strings are sequences of one-character strings, so that substring      *)
(* search, splitting and replacement are computed rather than assumed.    *)
(* A path is a sequence of names relative to the project directory.       *)
(***************************************************************************)
EXTENDS Integers, Sequences, FiniteSets, TLC

VARIABLES
    fs,            \* the project tree: [dirs: set of paths, files: path -> bytes]
    args,          \* Args: binary_name, version, architecture, dry_run
    stack,         \* open read_dir iterations: <<[mode, path, pending]>>, innermost last
    deb_files,     \* DebFiles: the HashMap FileType -> PathBuf, as a function
    toml_found,    \* Forge::from's local
    pc,            \* position of the run
    err,           \* the fatal error the run ended with, or None
    stdout,        \* the lines printed so far (as a set)
    queue,         \* Forge::forge: the (FileType, PathBuf) pairs still to write
    run,           \* number of the current run of the program on this tree
    hist,          \* history of the run: the tree it started on, the directories
                   \* removed, the entries classified, the files written
    classified,    \* the classifier applied alone: [name, result, done]
    written,       \* write_file applied alone: [v, file_type, input, dest, output, done]
    resolved       \* the resolver applied alone: [input, result, done]

vars == <<fs, args, stack, deb_files, toml_found, pc, err, stdout, queue, run, hist,
          classified, written, resolved>>

None == "None"

(***************************************************************************)
(* Bounds of the model.                                                    *)
(***************************************************************************)
MaxParts == 2       \* name parts concatenated into a classifier input
MaxExtra == 2       \* optional entries added to a base project tree
MaxRuns == 2        \* consecutive runs of the program on one tree
MaxLines == 2       \* lines of a template file

(***************************************************************************)
(* String helpers (the std library calls the source makes).               *)
(***************************************************************************)
Range(s) == {s[i] : i \in 1..Len(s)}

\* str::contains(pat)
contains(s, pat) ==
    \E i \in 1..(Len(s) - Len(pat) + 1) : SubSeq(s, i, i + Len(pat) - 1) = pat

\* str::rsplit_once(c): <<before, after>> around the last c; <<>> for no c
rsplit_once(s, c) ==
    IF c \notin Range(s) THEN <<>>
    ELSE LET i == CHOOSE k \in 1..Len(s) :
                     s[k] = c /\ \A j \in (k+1)..Len(s) : s[j] # c
         IN  <<SubSeq(s, 1, i - 1), SubSeq(s, i + 1, Len(s))>>

\* str::replace(from, to): every non-overlapping match, left to right
RECURSIVE replace(_, _, _)
replace(s, from, to) ==
    IF Len(s) < Len(from) \/ Len(from) = 0 THEN s
    ELSE IF SubSeq(s, 1, Len(from)) = from
         THEN to \o replace(SubSeq(s, Len(from) + 1, Len(s)), from, to)
         ELSE <<s[1]>> \o replace(Tail(s), from, to)

\* Path components of a "/"-separated string (Path::push / Path::join of a
\* relative string: empty components are dropped).
RECURSIVE components(_)
components(s) ==
    IF s = <<>> THEN <<>>
    ELSE IF "/" \notin Range(s) THEN <<s>>
    ELSE LET i == CHOOSE k \in 1..Len(s) :
                     s[k] = "/" /\ \A j \in 1..(k-1) : s[j] # "/"
             rest == components(SubSeq(s, i + 1, Len(s)))
         IN  IF i = 1 THEN rest ELSE <<SubSeq(s, 1, i - 1)>> \o rest

\* BufRead::lines(): split at "\n", no final empty line, and a "\r" before
\* the "\n" is stripped with it.
RECURSIVE lines(_)
lines(bytes) ==
    IF bytes = <<>> THEN <<>>
    ELSE LET n  == IF "\n" \in Range(bytes)
                   THEN CHOOSE k \in 1..Len(bytes) :
                            bytes[k] = "\n" /\ \A j \in 1..(k-1) : bytes[j] # "\n"
                   ELSE Len(bytes) + 1
             raw == SubSeq(bytes, 1, n - 1)
             ln  == IF n <= Len(bytes) /\ raw # <<>> /\ raw[Len(raw)] = "\r"
                    THEN SubSeq(raw, 1, Len(raw) - 1) ELSE raw
         IN  <<ln>> \o lines(SubSeq(bytes, n + 1, Len(bytes)))

(***************************************************************************)
(* forge/deb_files.rs: FileType and the classifier.                        *)
(***************************************************************************)
FileTypes ==
    {"Control", "Changelog", "Copyright", "Binary",
     "Icon64", "Icon128", "Icon256", "Icon512", "Desktop", "Install",
     "PreInst", "PostInst", "PreRm", "PostRm", "ConfFiles", "Watch",
     "Format", "Dirs", "Docs", "Menu", "ManPages"}

ICON_FORMATS == <<<<"p","n","g">>, <<"j","p","g">>, <<"j","p","e","g">>, <<"t","i","f","f">>, <<"s","v","g">>>>

\* mutant of ICONS: the widest icon first
ICONS_descending == <<"Icon512", "Icon256", "Icon128", "Icon64">>

ICONS == <<"Icon64", "Icon128", "Icon256", "Icon512">>

\* FileType::width
width(file_type) ==
    CASE file_type = "Icon64"  -> <<"6","4">>
      [] file_type = "Icon128" -> <<"1","2","8">>
      [] file_type = "Icon256" -> <<"2","5","6">>
      [] file_type = "Icon512" -> <<"5","1","2">>

\* FileType::resolution
resolution(file_type) ==
    CASE file_type = "Icon64"  -> <<"6","4","x","6","4">>
      [] file_type = "Icon128" -> <<"1","2","8","x","1","2","8">>
      [] file_type = "Icon256" -> <<"2","5","6","x","2","5","6">>
      [] file_type = "Icon512" -> <<"5","1","2","x","5","1","2">>

\* FileType::from(&str)
FileType_from(str) ==
    CASE str = <<"c","o","n","t","r","o","l">>   -> "Control"
      [] str = <<"c","h","a","n","g","e","l","o","g">> -> "Changelog"
      [] str = <<"c","o","p","y","r","i","g","h","t">> -> "Copyright"
      [] str = <<"i","n","s","t","a","l","l">>   -> "Install"
      [] str = <<"p","r","e","i","n","s","t">>   -> "PreInst"
      [] str = <<"p","o","s","t","i","n","s","t">>  -> "PostInst"
      [] str = <<"p","r","e","r","m">>     -> "PreRm"
      [] str = <<"p","o","s","t","r","m">>    -> "PostRm"
      [] str = <<"c","o","n","f","f","i","l","e","s">> -> "ConfFiles"
      [] str = <<"w","a","t","c","h">>     -> "Watch"
      [] str = <<"f","o","r","m","a","t">>    -> "Format"
      [] str = <<"d","i","r","s">>      -> "Dirs"
      [] str = <<"d","o","c","s">>      -> "Docs"
      [] str = <<"d","e","s","k","t","o","p">>   -> "Desktop"
      [] str = <<"m","e","n","u">>      -> "Menu"
      [] str = <<"m","a","n","p","a","g","e","s">>  -> "ManPages"
      [] OTHER -> None

\* FileType::is_text
is_text(file_type) ==
    file_type \notin {"Icon64", "Icon128", "Icon256", "Icon512", "Binary"}

\* <&DirEntry as DebParser>::debian_file, on the entry's file name
debian_file(name_str) ==
    LET split == rsplit_once(name_str, ".") IN
    IF split # <<>>
    THEN LET extension == split[2] IN
         IF extension = <<"d","e","s","k","t","o","p">> THEN "Desktop"
         ELSE IF \E f \in 1..Len(ICON_FORMATS) : extension = ICON_FORMATS[f]
         THEN IF \E i \in 1..Len(ICONS) : contains(name_str, width(ICONS[i]))
              THEN ICONS[CHOOSE i \in 1..Len(ICONS) :
                         /\ contains(name_str, width(ICONS[i]))
                         /\ \A j \in 1..(i-1) : ~contains(name_str, width(ICONS[j]))]
              ELSE None
         ELSE None
    ELSE FileType_from(name_str)

\* FileType::output_file_name
output_file_name(file_type, linux_binary_name) ==
    CASE file_type = "Control"   -> <<"c","o","n","t","r","o","l">>
      [] file_type = "Changelog" -> <<"c","h","a","n","g","e","l","o","g">>
      [] file_type = "Copyright" -> <<"c","o","p","y","r","i","g","h","t">>
      [] file_type = "Binary"    -> linux_binary_name
      [] file_type \in {"Icon64", "Icon128", "Icon256", "Icon512"} ->
             linux_binary_name \o <<".","p","n","g">>
      [] file_type = "Desktop"   -> linux_binary_name \o <<".","d","e","s","k","t","o","p">>
      [] file_type = "Install"   -> <<"i","n","s","t","a","l","l">>
      [] file_type = "PreInst"   -> <<"p","r","e","i","n","s","t">>
      [] file_type = "PostInst"  -> <<"p","o","s","t","i","n","s","t">>
      [] file_type = "PreRm"     -> <<"p","r","e","r","m">>
      [] file_type = "PostRm"    -> <<"p","o","s","t","r","m">>
      [] file_type = "ConfFiles" -> <<"c","o","n","f","f","i","l","e","s">>
      [] file_type = "Watch"     -> <<"w","a","t","c","h">>
      [] file_type = "Format"    -> <<"f","o","r","m","a","t">>
      [] file_type = "Dirs"      -> <<"d","i","r","s">>
      [] file_type = "Docs"      -> <<"d","o","c","s">>
      [] file_type = "Menu"      -> <<"m","e","n","u">>
      [] file_type = "ManPages"  -> <<"m","a","n","p","a","g","e","s">>

(***************************************************************************)
(* args.rs: Architecture.                                                  *)
(***************************************************************************)
Architectures == {"Amd64", "Arm64"}

\* Architecture::target
target(architecture) ==
    CASE architecture = "Amd64" -> <<"x","8","6","_","6","4","-","u","n","k","n","o","w","n","-","l","i","n","u","x","-","g","n","u">>
      [] architecture = "Arm64" -> <<"a","a","r","c","h","6","4","-","u","n","k","n","o","w","n","-","l","i","n","u","x","-","g","n","u">>

\* Architecture::short
short(architecture) ==
    CASE architecture = "Amd64" -> <<"a","m","d","6","4">>
      [] architecture = "Arm64" -> <<"a","r","m","6","4">>

\* u8::make_ascii_lowercase on one character
ascii_lowercase(c) ==
    CASE c = "A" -> "a" [] c = "B" -> "b" [] c = "C" -> "c" [] c = "D" -> "d"
      [] c = "E" -> "e" [] c = "F" -> "f" [] c = "G" -> "g" [] c = "H" -> "h"
      [] c = "I" -> "i" [] c = "J" -> "j" [] c = "K" -> "k" [] c = "L" -> "l"
      [] c = "M" -> "m" [] c = "N" -> "n" [] c = "O" -> "o" [] c = "P" -> "p"
      [] c = "Q" -> "q" [] c = "R" -> "r" [] c = "S" -> "s" [] c = "T" -> "t"
      [] c = "U" -> "u" [] c = "V" -> "v" [] c = "W" -> "w" [] c = "X" -> "x"
      [] c = "Y" -> "y" [] c = "Z" -> "z" [] OTHER -> c

\* String::make_ascii_lowercase
make_ascii_lowercase(value) == [i \in 1..Len(value) |-> ascii_lowercase(value[i])]

InvalidTarget == "invalid target/architecture"

\* <Architecture as From<String>>::from; exit_err! ends the process
Architecture_from(value) ==
    LET v == make_ascii_lowercase(value) IN
    IF v \in {<<"x","8","6","_","6","4","-","u","n","k","n","o","w","n","-","l","i","n","u","x","-","g","n","u">>, <<"a","m","d">>, <<"x","8","6">>, <<"x","8","6","_","6","4">>}
    THEN "Amd64"
    ELSE IF v \in {<<"a","a","r","c","h","6","4","-","u","n","k","n","o","w","n","-","l","i","n","u","x","-","g","n","u">>, <<"a","r","m">>, <<"a","a","r","c","h","6","4">>}
    THEN "Arm64"
    ELSE InvalidTarget

(***************************************************************************)
(* forge/mod.rs and forge/deb_files.rs: Variables, paths and write_file.   *)
(***************************************************************************)
TEMP_DIR == <<"t","m","p">>

\* Forge::from, the Variables it builds (project_dir is the root of paths)
Variables(binary_name, version, architecture) ==
    [binary_name       |-> binary_name,
     linux_binary_name |-> replace(binary_name, <<"_">>, <<"-">>),
     version           |-> version,
     architecture      |-> architecture]

\* mutant of get_file_type_path: the Format arm is missing
get_file_type_path_no_source(v, file_type) ==
    LET out == components(<<"b","u","i","l","d","/","t","m","p","/","d","i","s","t","/","l","i","n","u","x","/">> \o v.linux_binary_name
                          \o <<"-">> \o v.version)
    IN  CASE file_type \in {"Changelog", "Copyright"} ->
                 out \o components(<<"u","s","r","/","s","h","a","r","e","/","d","o","c","/">> \o v.linux_binary_name)
          [] file_type \in {"Icon64", "Icon128", "Icon256", "Icon512"} ->
                 out \o components(<<"u","s","r","/","s","h","a","r","e","/","i","c","o","n","s","/","h","i","c","o","l","o","r","/">>
                                   \o resolution(file_type) \o <<"/","a","p","p","s">>)
          [] file_type = "Binary"  -> out \o components(<<"u","s","r","/","l","o","c","a","l","/","b","i","n">>)
          [] file_type = "Desktop" -> out \o components(<<"u","s","r","/","s","h","a","r","e","/","a","p","p","l","i","c","a","t","i","o","n","s">>)
          [] OTHER                 -> out \o components(<<"D","E","B","I","A","N">>)

\* Variables::get_file_type_path, relative to project_dir
get_file_type_path(v, file_type) ==
    LET out == components(<<"b","u","i","l","d","/","t","m","p","/","d","i","s","t","/","l","i","n","u","x","/">> \o v.linux_binary_name
                          \o <<"-">> \o v.version)
    IN  CASE file_type \in {"Changelog", "Copyright"} ->
                 out \o components(<<"u","s","r","/","s","h","a","r","e","/","d","o","c","/">> \o v.linux_binary_name)
          [] file_type \in {"Icon64", "Icon128", "Icon256", "Icon512"} ->
                 out \o components(<<"u","s","r","/","s","h","a","r","e","/","i","c","o","n","s","/","h","i","c","o","l","o","r","/">>
                                   \o resolution(file_type) \o <<"/","a","p","p","s">>)
          [] file_type = "Binary"  -> out \o components(<<"u","s","r","/","l","o","c","a","l","/","b","i","n">>)
          [] file_type = "Desktop" -> out \o components(<<"u","s","r","/","s","h","a","r","e","/","a","p","p","l","i","c","a","t","i","o","n","s">>)
          [] file_type = "Format"  -> out \o components(<<"D","E","B","I","A","N","/","s","o","u","r","c","e">>)
          [] OTHER                 -> out \o components(<<"D","E","B","I","A","N">>)

\* Variables::write_file, the destination file: output_dir after the push
output_path(v, file_type) ==
    get_file_type_path(v, file_type)
        \o components(output_file_name(file_type, v.linux_binary_name))

\* mutant of replacements: $Version is replaced before $BinaryName
replacements_reordered(v) ==
    <<  <<<<"$","V","e","r","s","i","o","n">>,         v.version>>,
        <<<<"$","B","i","n","a","r","y","N","a","m","e">>,      v.binary_name>>,
        <<<<"$","L","i","n","u","x","B","i","n","a","r","y","N","a","m","e">>, v.linux_binary_name>>,
        <<<<"$","T","a","r","g","e","t">>,          target(v.architecture)>>,
        <<<<"$","A","r","c","h","i","t","e","c","t","u","r","e">>,    short(v.architecture)>>  >>

\* Variables::replacements
replacements(v) ==
    <<  <<<<"$","B","i","n","a","r","y","N","a","m","e">>,      v.binary_name>>,
        <<<<"$","L","i","n","u","x","B","i","n","a","r","y","N","a","m","e">>, v.linux_binary_name>>,
        <<<<"$","V","e","r","s","i","o","n">>,         v.version>>,
        <<<<"$","T","a","r","g","e","t">>,          target(v.architecture)>>,
        <<<<"$","A","r","c","h","i","t","e","c","t","u","r","e">>,    short(v.architecture)>>  >>

\* write_file, the inner loop: `for (key, value) in replacements`
RECURSIVE replace_all(_, _, _)
replace_all(line, reps, k) ==
    IF k > Len(reps) THEN line
    ELSE replace_all(replace(line, reps[k][1], reps[k][2]), reps, k + 1)

\* write_file, the outer loop: every line substituted, then "\n" pushed
RECURSIVE write_lines(_, _)
write_lines(ls, reps) ==
    IF ls = <<>> THEN <<>>
    ELSE replace_all(Head(ls), reps, 1) \o <<"\n">> \o write_lines(Tail(ls), reps)

\* FileType::is_icon is called by write_file but defined in no source file;
\* the roles copied verbatim are the non-textual ones.
is_icon(file_type) == ~is_text(file_type)

\* Variables::write_file, the bytes written to the destination
write_file(v, bytes, file_type) ==
    IF is_icon(file_type) THEN bytes
    ELSE write_lines(lines(bytes), replacements(v))

(***************************************************************************)
(* Inputs of the pure functions.                                           *)
(***************************************************************************)
RECURSIVE Joined(_, _)
\* every concatenation of at most n members of parts
Joined(parts, n) ==
    IF n = 0 THEN {<<>>}
    ELSE LET prev == Joined(parts, n - 1)
         IN  prev \cup {p \o q : p \in prev, q \in parts}

NameParts ==
    {<<"i","c","o","n">>, <<"-">>, <<"6","4">>, <<"1","2","8">>, <<"2","5","6">>, <<"5","1","2">>, <<"4">>, <<"1">>, <<"2","8">>,
     <<".">>}

ReservedNames ==
    {<<"c","o","n","t","r","o","l">>, <<"c","h","a","n","g","e","l","o","g">>, <<"c","o","p","y","r","i","g","h","t">>, <<"i","n","s","t","a","l","l">>, <<"p","r","e","i","n","s","t">>,
     <<"p","o","s","t","i","n","s","t">>, <<"p","r","e","r","m">>, <<"p","o","s","t","r","m">>, <<"c","o","n","f","f","i","l","e","s">>, <<"w","a","t","c","h">>, <<"f","o","r","m","a","t">>,
     <<"d","i","r","s">>, <<"d","o","c","s">>, <<"m","e","n","u">>, <<"m","a","n","p","a","g","e","s">>, <<"d","e","s","k","t","o","p">>}

NameSuffixes ==
    {<<>>, <<".","p","n","g">>, <<".","j","p","g">>, <<".","j","p","e","g">>, <<".","t","i","f","f">>, <<".","s","v","g">>, <<".","d","e","s","k","t","o","p">>,
     <<".","t","x","t">>, <<".","P","N","G">>, <<".">>, <<"p","n","g">>}

\* file names handed to the classifier
ClassifyNames ==
    {st \o su : st \in Joined(NameParts, MaxParts) \cup ReservedNames
                        \cup {<<"r","u","l","e","s">>, <<"C","o","n","t","r","o","l">>, <<"C","a","r","g","o">>},
                su \in NameSuffixes} \ {<<>>}

HarnessBinaryNames == {<<"m","y","_","a","p","p">>, <<"c","o","n","t","r","o","l">>, <<"$","V","e","r","s","i","o","n">>}

HarnessVariables ==
    {Variables(b, ver, a) : b \in HarnessBinaryNames,
                            ver \in {<<"1",".","0">>}, a \in Architectures}
    \cup {Variables(<<"m","y","_","a","p","p">>, <<"$","T","a","r","g","e","t">>, "Arm64")}

TemplateLines ==
    {<<"A","r","c","h","i","t","e","c","t","u","r","e",":"," ","$","A","r","c","h","i","t","e","c","t","u","r","e">>, <<"$","B","i","n","a","r","y","N","a","m","e"," ","$","L","i","n","u","x","B","i","n","a","r","y","N","a","m","e">>,
     <<"$","V","e","r","s","i","o","n","-","$","T","a","r","g","e","t","$">>, <<>>}

LineEnds == {<<"\n">>, <<"\r","\n">>}

RECURSIVE TerminatedLines(_)
\* every text of at most n terminated lines
TerminatedLines(n) ==
    IF n = 0 THEN {<<>>}
    ELSE LET prev == TerminatedLines(n - 1)
         IN  prev \cup {p \o l \o e : p \in prev, l \in TemplateLines, e \in LineEnds}

\* source files: whole lines, the last one with or without its line end
InputTexts ==
    TerminatedLines(MaxLines)
    \cup {p \o l : p \in TerminatedLines(MaxLines - 1), l \in TemplateLines \ {<<>>}}

Letters ==
    {"A", "B", "C", "D", "E", "F", "G", "H", "I", "J", "K", "L", "M", "N", "O", "P",
     "Q", "R", "S", "T", "U", "V", "W", "X", "Y", "Z"}

\* the upper-case spelling of a character, for building inputs
Upper(c) ==
    IF \E d \in Letters : ascii_lowercase(d) = c /\ d # c
    THEN CHOOSE d \in Letters : ascii_lowercase(d) = c /\ d # c
    ELSE c

RECURSIVE Casings(_)
\* every upper/lower-case spelling of s
Casings(s) ==
    IF s = <<>> THEN {<<>>}
    ELSE {<<c>> \o t : c \in {Head(s), Upper(Head(s))}, t \in Casings(Tail(s))}

\* target strings handed to the resolver
TargetInputs ==
    UNION {Casings(s) : s \in {<<"a","m","d">>, <<"a","r","m">>, <<"x","8","6">>, <<"a","m","d","6","4">>, <<"a","r","m","6","4">>,
                               <<"x","8","6","_","6","4">>, <<"a","a","r","c","h","6","4">>, <<"i","3","8","6">>, <<"a","r","m","h","f">>}}
    \cup {<<"x","8","6","_","6","4","-","u","n","k","n","o","w","n","-","l","i","n","u","x","-","g","n","u">>, <<"a","a","r","c","h","6","4","-","u","n","k","n","o","w","n","-","l","i","n","u","x","-","g","n","u">>,
          <<"X","8","6","_","6","4","-","U","N","K","N","O","W","N","-","L","I","N","U","X","-","G","N","U">>, <<"A","A","R","C","H","6","4","-","U","n","k","n","o","w","n","-","L","i","n","u","x","-","G","n","u">>,
          <<"x","8","6","_","6","4","-","p","c","-","w","i","n","d","o","w","s","-","m","s","v","c">>, <<>>}

(***************************************************************************)
(* The file system under the project directory, and the std::fs calls.    *)
(***************************************************************************)
IsPrefix(p, q) == Len(p) <= Len(q) /\ SubSeq(q, 1, Len(p)) = p

\* fs::read_dir(path): the entries of a directory
read_dir(f, path) ==
    {q \in f.dirs \cup DOMAIN f.files \cup f.others :
        Len(q) = Len(path) + 1 /\ IsPrefix(path, q)}

\* DirEntry::file_name
file_name(entry) == entry[Len(entry)]

\* mutant of remove_dir_all: the directory being scanned is removed, not
\* the entry
remove_dir_all_scanned(f, path) ==
    LET dir == SubSeq(path, 1, Len(path) - 1) IN
    [dirs   |-> {d \in f.dirs : ~IsPrefix(dir, d)},
     files  |-> [q \in {q \in DOMAIN f.files : ~IsPrefix(dir, q)} |-> f.files[q]],
     others |-> {o \in f.others : ~IsPrefix(dir, o)}]

\* fs::remove_dir_all(path)
remove_dir_all(f, path) ==
    [dirs   |-> {d \in f.dirs : ~IsPrefix(path, d)},
     files  |-> [q \in {q \in DOMAIN f.files : ~IsPrefix(path, q)} |-> f.files[q]],
     others |-> {o \in f.others : ~IsPrefix(path, o)}]

\* fs::create_dir_all(dir) followed by File::create / fs::copy to dest
create_file(f, dest, bytes) ==
    [dirs   |-> f.dirs \cup {SubSeq(dest, 1, n) : n \in 1..(Len(dest) - 1)},
     files  |-> [q \in DOMAIN f.files \cup {dest} |->
                    IF q = dest THEN bytes ELSE f.files[q]],
     others |-> f.others]

\* the files under <project_dir>/build/tmp, with their contents
Staged(f) ==
    [p \in {q \in DOMAIN f.files : IsPrefix(<<<<"b","u","i","l","d">>, <<"t","m","p">>>>, q)} |-> f.files[p]]

\* str::trim on a line
RECURSIVE trim(_)
trim(s) ==
    IF s = <<>> THEN s
    ELSE IF Head(s) \in {" ", "\t", "\r"} THEN trim(Tail(s))
    ELSE IF s[Len(s)] \in {" ", "\t", "\r"} THEN trim(SubSeq(s, 1, Len(s) - 1))
    ELSE s

\* line.strip_prefix(prefix).and_then(|rest| rest.strip_suffix('"')):
\* <<value>>, or <<>> when the line does not have that shape
strip_field(line, prefix) ==
    IF /\ IsPrefix(prefix, line)
       /\ Len(line) > Len(prefix)
       /\ line[Len(line)] = "\""
    THEN <<SubSeq(line, Len(prefix) + 1, Len(line) - 1)>>
    ELSE <<>>

\* Forge::parse_toml over the remaining lines: <<binary_name, version>>,
\* each an Option (<<>> or <<value>>)
RECURSIVE parse_toml_lines(_, _, _)
parse_toml_lines(ls, binary_name, version) ==
    IF ls = <<>> THEN <<binary_name, version>>
    ELSE LET line == trim(Head(ls))
             name == IF binary_name = <<>>
                     THEN strip_field(line, <<"n","a","m","e"," ","="," ","\"">>) ELSE binary_name
             ver  == IF binary_name # <<>> /\ version = <<>>
                     THEN strip_field(line, <<"v","e","r","s","i","o","n"," ","="," ","\"">>) ELSE version
         IN  IF name # <<>> /\ ver # <<>> THEN <<name, ver>>
             ELSE parse_toml_lines(Tail(ls), name, ver)

\* Forge::parse_toml
parse_toml(bytes, binary_name, version) ==
    parse_toml_lines(lines(bytes), binary_name, version)

\* Architecture::platform_bin_path is called by get_binary_path but defined
\* in no source file: the build output directory of the target.
platform_bin_path(architecture) ==
    <<"t","a","r","g","e","t","/">> \o target(architecture) \o <<"/","r","e","l","e","a","s","e">>

\* Variables::get_binary_path, relative to project_dir
get_binary_path(v) ==
    components(platform_bin_path(v.architecture)) \o components(v.binary_name)

(***************************************************************************)
(* The projects the program is run on: the minimal valid project (the     *)
(* three required files, a Cargo.toml and the built binary, no flags but  *)
(* the target) with at most MaxExtra of the changes below applied.        *)
(***************************************************************************)
CargoToml == <<"[","p","a","c","k","a","g","e","]","\n","n","a","m","e"," ","="," ","\"","m","y","_","a","p","p","\"","\n","v","e","r","s","i","o","n"," ","="," ","\"","1",".","0","\"","\n">>

ControlText == <<"A","r","c","h","i","t","e","c","t","u","r","e",":"," ","$","A","r","c","h","i","t","e","c","t","u","r","e","\n">>
ChangelogText == <<"$","L","i","n","u","x","B","i","n","a","r","y","N","a","m","e"," ","(","$","V","e","r","s","i","o","n",")">>
CopyrightText == <<"(","c",")"," ","$","B","i","n","a","r","y","N","a","m","e","\r","\n">>
IconBytes == <<"P","N","G","$","V","e","r","s","i","o","n","\r","\n">>
ScriptText == <<"#","!","/","b","i","n","/","s","h","\n">>
BinaryBytes == <<"E","L","F","$","T","a","r","g","e","t">>

\* changes that add a file (and the directories above it)
ExtraFiles ==
    [icon_a    |-> [path |-> <<<<"a","s","s","e","t","s">>, <<"i","c","o","n","-","1","2","8",".","p","n","g">>>>, bytes |-> IconBytes],
     icon_b    |-> [path |-> <<<<"a","s","s","e","t","s">>, <<"i","c","o","n","1","2","8",".","p","n","g">>>>, bytes |-> IconBytes],
     stale     |-> [path |-> <<<<"b","u","i","l","d">>, <<"t","m","p">>, <<"d","i","s","t">>, <<"c","o","n","t","r","o","l">>>>, bytes |-> ControlText],
     deb_tmp   |-> [path |-> <<<<"b","u","i","l","d">>, <<"d","e","b","i","a","n">>, <<"t","m","p">>, <<"p","o","s","t","i","n","s","t">>>>, bytes |-> ScriptText],
     build_ctl |-> [path |-> <<<<"b","u","i","l","d">>, <<"c","o","n","t","r","o","l">>>>, bytes |-> ControlText],
     build_sub |-> [path |-> <<<<"b","u","i","l","d">>, <<"p","k","g">>, <<"i","n","s","t","a","l","l">>>>, bytes |-> ScriptText],
     top_desk  |-> [path |-> <<<<"m","y","_","a","p","p",".","d","e","s","k","t","o","p">>>>, bytes |-> <<"E","x","e","c","=","$","B","i","n","a","r","y","N","a","m","e","\n">>],
     asset_tmp |-> [path |-> <<<<"a","s","s","e","t","s">>, <<"t","m","p">>, <<"i","c","o","n","-","6","4",".","s","v","g">>>>, bytes |-> IconBytes],
     format    |-> [path |-> <<<<"d","e","b","i","a","n">>, <<"s","o","u","r","c","e">>, <<"f","o","r","m","a","t">>>>, bytes |-> <<"3",".","0","\n">>]]

\* the other changes: a required file or the binary removed, a symbolic
\* link added, the manifest removed, -b and -v given, -t arm given
OtherChanges ==
    {"no_control", "no_changelog", "no_copyright", "no_binary", "link",
     "no_toml", "flags", "target_arm"}

Changes == DOMAIN ExtraFiles \cup OtherChanges

ChangeSets == {c \in SUBSET Changes : Cardinality(c) <= MaxExtra}

\* the architecture and the flags of the run
ArgsOf(c, dry_run) ==
    [binary_name  |-> IF "flags" \in c THEN <<<<"m","y","_","a","p","p">>>> ELSE <<>>,
     version      |-> IF "flags" \in c THEN <<<<"1",".","0">>>> ELSE <<>>,
     architecture |-> IF "target_arm" \in c THEN "Arm64" ELSE "Amd64",
     dry_run      |-> dry_run]

\* the project tree
TreeOf(c) ==
    LET arch  == IF "target_arm" \in c THEN "Arm64" ELSE "Amd64"
        bin   == get_binary_path(Variables(<<"m","y","_","a","p","p">>, <<"1",".","0">>, arch))
        base  ==
            (IF "no_control" \in c THEN {}
             ELSE {[path |-> <<<<"d","e","b","i","a","n">>, <<"c","o","n","t","r","o","l">>>>, bytes |-> ControlText]})
            \cup (IF "no_changelog" \in c THEN {}
             ELSE {[path |-> <<<<"d","e","b","i","a","n">>, <<"c","h","a","n","g","e","l","o","g">>>>, bytes |-> ChangelogText]})
            \cup (IF "no_copyright" \in c THEN {}
             ELSE {[path |-> <<<<"d","e","b","i","a","n">>, <<"c","o","p","y","r","i","g","h","t">>>>, bytes |-> CopyrightText]})
            \cup (IF "no_binary" \in c THEN {}
             ELSE {[path |-> bin, bytes |-> BinaryBytes]})
            \cup (IF "no_toml" \in c THEN {}
             ELSE {[path |-> <<<<"C","a","r","g","o",".","t","o","m","l">>>>,
                    bytes |-> CargoToml]})
        added == base \cup {ExtraFiles[x] : x \in c \cap DOMAIN ExtraFiles}
        paths == {a.path : a \in added}
        links == IF "link" \in c THEN {<<<<"d","e","b","i","a","n">>, <<"p","o","s","t","r","m">>>>} ELSE {}
    IN  [dirs   |-> UNION {{SubSeq(p, 1, n) : n \in 1..(Len(p) - 1)} :
                           p \in paths \cup links \cup {bin}},
         files  |-> [p \in paths |-> (CHOOSE a \in added : a.path = p).bytes],
         others |-> links]

(***************************************************************************)
(* forge/mod.rs: the scanner, Forge::from and Forge::forge.                *)
(***************************************************************************)
\* SearchDir::name
name(search_dir) ==
    CASE search_dir = "Assets" -> <<"a","s","s","e","t","s">>
      [] search_dir = "Build"  -> <<"b","u","i","l","d">>
      [] search_dir = "Debian" -> <<"d","e","b","i","a","n">>

SEARCH_DIRS == <<"Assets", "Build", "Debian">>

\* messages
DuplicateError(file_type) == <<"Error: found more than 1", file_type>>
MissingError(file_type) == <<"Error: could not locate", file_type>>
TomlParseError == <<"Error: Failed to parse Cargo.toml">>
TomlMissingError == <<"Error: Could not find Cargo.toml">>
FoundLine(file_type) == <<"Found", file_type>>
ResetLine == <<"Reset contents of ~/build/tmp">>
ValidLine == <<"Valid project file structure">>
ImportedLine(total) == <<"Successfully imported", total>>

Top == stack[Len(stack)]

\* the innermost open read_dir yields `entry`: it leaves `pending`
Yield(entry) ==
    [stack EXCEPT ![Len(stack)].pending = @ \ {entry}]

\* a recursive call of scan: a new read_dir over the entry
Enter(search_dir, entry) ==
    Append(Yield(entry),
           [mode |-> search_dir, path |-> entry, pending |-> read_dir(fs, entry)])

\* mutant of try_insert_deb: a second file of a role replaces the first
try_insert_deb_overwrite(entry) ==
    LET deb_file == debian_file(file_name(entry)) IN
    IF deb_file = None
    THEN UNCHANGED <<deb_files, pc, err, stdout, hist>>
    ELSE /\ hist' = [hist EXCEPT !.seen = @ \cup {<<deb_file, entry>>}]
         /\ deb_files' = [t \in DOMAIN deb_files \cup {deb_file} |->
                             IF t = deb_file THEN entry ELSE deb_files[t]]
         /\ stdout' = IF args.dry_run
                      THEN stdout \cup {FoundLine(deb_file)} ELSE stdout
         /\ UNCHANGED <<pc, err>>

\* DebCollector::try_insert_deb, for an entry that is a regular file
try_insert_deb(entry) ==
    LET deb_file == debian_file(file_name(entry)) IN
    IF deb_file = None
    THEN UNCHANGED <<deb_files, pc, err, stdout, hist>>
    ELSE /\ hist' = [hist EXCEPT !.seen = @ \cup {<<deb_file, entry>>}]
         /\ deb_files' = [t \in DOMAIN deb_files \cup {deb_file} |->
                             IF t = deb_file THEN entry ELSE deb_files[t]]
         /\ IF deb_file \in DOMAIN deb_files
            THEN /\ pc' = "panicked"
                 /\ err' = DuplicateError(deb_file)
                 /\ UNCHANGED stdout
            ELSE /\ stdout' = IF args.dry_run
                              THEN stdout \cup {FoundLine(deb_file)} ELSE stdout
                 /\ UNCHANGED <<pc, err>>

\* mutant of resets_tmp: the dry-run flag is not consulted
resets_tmp_in_dry_run(entry) == file_name(entry) = TEMP_DIR

\* mutant of resets_tmp: build/tmp is never reset
resets_tmp_never(entry) == FALSE

\* SearchDir::scan, the guard of the reset: `!dry_run && file_name == TEMP_DIR`
resets_tmp(entry) == ~args.dry_run /\ file_name(entry) = TEMP_DIR

\* mutant of ScanEntry: Build mode recurses into every subdirectory it does
\* not reset
ScanEntry_build_recurses ==
    /\ pc = "from"
    /\ Top.mode # "Root"
    /\ \E entry \in Top.pending :
        IF Top.mode \in {"Assets", "Debian"} /\ entry \in fs.dirs
        THEN /\ stack' = Enter(Top.mode, entry)
             /\ UNCHANGED <<fs, deb_files, pc, err, stdout, hist>>
        ELSE IF Top.mode = "Build" /\ entry \in fs.dirs
        THEN IF resets_tmp(entry)
             THEN /\ fs' = remove_dir_all(fs, entry)
                  /\ stdout' = stdout \cup {ResetLine}
                  /\ hist' = [hist EXCEPT !.removed = @ \cup {entry}]
                  /\ stack' = Yield(entry)
                  /\ UNCHANGED <<deb_files, pc, err>>
             ELSE /\ stack' = Enter("Debian", entry)
                  /\ UNCHANGED <<fs, deb_files, pc, err, stdout, hist>>
        ELSE IF entry \in DOMAIN fs.files
        THEN /\ try_insert_deb(entry)
             /\ stack' = Yield(entry)
             /\ UNCHANGED fs
        ELSE /\ stack' = Yield(entry)
             /\ UNCHANGED <<fs, deb_files, pc, err, stdout, hist>>
    /\ UNCHANGED <<args, toml_found, queue, run, classified, written, resolved>>

\* SearchDir::scan, one iteration of its loop over read_dir(path): the
\* four arms of its match, in order
ScanEntry ==
    /\ pc = "from"
    /\ Top.mode # "Root"
    /\ \E entry \in Top.pending :
        IF Top.mode \in {"Assets", "Debian"} /\ entry \in fs.dirs
        THEN /\ stack' = Enter(Top.mode, entry)
             /\ UNCHANGED <<fs, deb_files, pc, err, stdout, hist>>
        ELSE IF Top.mode = "Build" /\ entry \in fs.dirs
        THEN IF resets_tmp(entry)
             THEN /\ fs' = remove_dir_all(fs, entry)
                  /\ stdout' = stdout \cup {ResetLine}
                  /\ hist' = [hist EXCEPT !.removed = @ \cup {entry}]
                  /\ stack' = Yield(entry)
                  /\ UNCHANGED <<deb_files, pc, err>>
             ELSE IF file_name(entry) = name("Debian")
             THEN /\ stack' = Enter("Debian", entry)
                  /\ UNCHANGED <<fs, deb_files, pc, err, stdout, hist>>
             ELSE /\ stack' = Yield(entry)
                  /\ UNCHANGED <<fs, deb_files, pc, err, stdout, hist>>
        ELSE IF entry \in DOMAIN fs.files
        THEN /\ try_insert_deb(entry)
             /\ stack' = Yield(entry)
             /\ UNCHANGED fs
        ELSE /\ stack' = Yield(entry)
             /\ UNCHANGED <<fs, deb_files, pc, err, stdout, hist>>
    /\ UNCHANGED <<args, toml_found, queue, run, classified, written, resolved>>

\* SearchDir::scan, its read_dir is exhausted: Ok(())
ScanReturn ==
    /\ pc = "from"
    /\ Top.mode # "Root"
    /\ Top.pending = {}
    /\ stack' = SubSeq(stack, 1, Len(stack) - 1)
    /\ UNCHANGED <<fs, args, deb_files, toml_found, pc, err, stdout, queue, run,
                   hist, classified, written, resolved>>

\* Forge::from, one iteration of its loop over read_dir(project_dir)
FromEntry ==
    /\ pc = "from"
    /\ Top.mode = "Root"
    /\ \E entry \in Top.pending :
        IF entry \in fs.dirs
        THEN /\ IF \E i \in 1..Len(SEARCH_DIRS) : file_name(entry) = name(SEARCH_DIRS[i])
                THEN stack' = Enter(CHOOSE d \in Range(SEARCH_DIRS) :
                                        file_name(entry) = name(d), entry)
                ELSE stack' = Yield(entry)
             /\ UNCHANGED <<args, deb_files, toml_found, pc, err, stdout, hist>>
        ELSE IF entry \in DOMAIN fs.files
        THEN IF file_name(entry) = <<"C","a","r","g","o",".","t","o","m","l">>
             THEN /\ toml_found' = TRUE
                  /\ IF args.binary_name = <<>> \/ args.version = <<>>
                     THEN LET got == parse_toml(fs.files[entry], args.binary_name,
                                                args.version)
                          IN  args' = [args EXCEPT !.binary_name = got[1],
                                                   !.version = got[2]]
                     ELSE UNCHANGED args
                  /\ stack' = Yield(entry)
                  /\ UNCHANGED <<deb_files, pc, err, stdout, hist>>
             ELSE /\ try_insert_deb(entry)
                  /\ stack' = Yield(entry)
                  /\ UNCHANGED <<args, toml_found>>
        ELSE /\ stack' = Yield(entry)
             /\ UNCHANGED <<args, deb_files, toml_found, pc, err, stdout, hist>>
    /\ UNCHANGED <<fs, queue, run, classified, written, resolved>>

\* Forge::from, the roles of the `required` array, in its order
Required == <<"Control", "Changelog", "Copyright">>

\* mutant of FirstMissing: the last missing role is reported
FirstMissing_last ==
    IF \E i \in 1..Len(Required) : Required[i] \notin DOMAIN deb_files
    THEN CHOOSE i \in 1..Len(Required) :
             /\ Required[i] \notin DOMAIN deb_files
             /\ \A j \in (i+1)..Len(Required) : Required[j] \in DOMAIN deb_files
    ELSE 0

\* the first required role that deb_files lacks, or 0
FirstMissing ==
    IF \E i \in 1..Len(Required) : Required[i] \notin DOMAIN deb_files
    THEN CHOOSE i \in 1..Len(Required) :
             /\ Required[i] \notin DOMAIN deb_files
             /\ \A j \in 1..(i-1) : Required[j] \in DOMAIN deb_files
    ELSE 0

\* HashMap::remove_entry of the given roles
Without(files, roles) == [t \in DOMAIN files \ roles |-> files[t]]

\* Forge::from after its loop: the manifest check, the required roles, the
\* project and the dry-run exit
FromRest ==
    /\ pc = "from"
    /\ Len(stack) = 1
    /\ Top.pending = {}
    /\ IF args.binary_name = <<>> \/ args.version = <<>>
       THEN /\ pc' = "panicked"
            /\ err' = IF toml_found THEN TomlParseError ELSE TomlMissingError
            /\ UNCHANGED <<deb_files, stdout, queue, hist>>
       ELSE IF FirstMissing # 0
       THEN /\ pc' = "panicked"
            /\ err' = MissingError(Required[FirstMissing])
            /\ deb_files' = Without(deb_files,
                                    {Required[j] : j \in 1..(FirstMissing - 1)})
            /\ UNCHANGED <<stdout, queue, hist>>
       ELSE /\ deb_files' = Without(deb_files, Range(Required))
            /\ queue' = [required |-> [i \in 1..Len(Required) |->
                                          <<Required[i], deb_files[Required[i]]>>],
                         optional |-> {<<t, deb_files[t]>> :
                                          t \in DOMAIN deb_files \ Range(Required)}]
            /\ hist' = [hist EXCEPT !.files = deb_files]
            /\ IF args.dry_run
               THEN /\ stdout' = stdout \cup {ValidLine}
                    /\ pc' = "exited"
               ELSE /\ pc' = "forge"
                    /\ UNCHANGED stdout
            /\ UNCHANGED err
    /\ UNCHANGED <<fs, args, stack, toml_found, run, classified, written, resolved>>

\* the Variables of the project built by Forge::from
ProjectVars == Variables(args.binary_name[1], args.version[1], args.architecture)

\* Forge::forge, one iteration: the required array first, in order, then
\* the optional HashMap in its iteration order
ForgeWrite ==
    /\ pc = "forge"
    /\ \E item \in (IF queue.required # <<>> THEN {Head(queue.required)}
                    ELSE queue.optional) :
        LET file == item[1]
            path == item[2]
            dest == output_path(ProjectVars, file)
        IN  /\ fs' = create_file(fs, dest, write_file(ProjectVars, fs.files[path], file))
            /\ queue' = IF queue.required # <<>>
                        THEN [queue EXCEPT !.required = Tail(@)]
                        ELSE [queue EXCEPT !.optional = @ \ {item}]
            /\ hist' = [hist EXCEPT !.wrote = @ \cup {<<file, dest>>}]
    /\ UNCHANGED <<args, stack, deb_files, toml_found, pc, err, stdout, run,
                   classified, written, resolved>>

\* Forge::forge after its loop
ForgeDone ==
    /\ pc = "forge"
    /\ queue.required = <<>>
    /\ queue.optional = {}
    /\ stdout' = stdout \cup {ImportedLine(Cardinality(DOMAIN hist.files))}
    /\ pc' = "done"
    /\ hist' = [hist EXCEPT !.first = IF @ = <<>> THEN <<Staged(fs)>> ELSE @]
    /\ UNCHANGED <<fs, args, stack, deb_files, toml_found, err, queue, run,
                   classified, written, resolved>>

NoHarness ==
    /\ classified = [name |-> <<>>, result |-> None, done |-> FALSE]
    /\ written = [v |-> Variables(<<>>, <<>>, "Amd64"), file_type |-> None,
                  input |-> <<>>, dest |-> <<>>, output |-> <<>>, done |-> FALSE]
    /\ resolved = [input |-> <<>>, result |-> None, done |-> FALSE]

EmptyFiles == [t \in {} |-> <<>>]

\* main: Args::parse has run, Forge::from starts
Init ==
    /\ \E c \in ChangeSets, dry_run \in BOOLEAN :
        /\ fs = TreeOf(c)
        /\ args = ArgsOf(c, dry_run)
        /\ stack = <<[mode |-> "Root", path |-> <<>>,
                      pending |-> read_dir(TreeOf(c), <<>>)]>>
        /\ hist = [changes |-> c, start |-> TreeOf(c), removed |-> {},
                   seen |-> {}, wrote |-> {}, files |-> EmptyFiles, first |-> <<>>]
    /\ deb_files = EmptyFiles
    /\ toml_found = FALSE
    /\ pc = "from"
    /\ err = <<>>
    /\ stdout = {}
    /\ queue = [required |-> <<>>, optional |-> {}]
    /\ run = 1
    /\ NoHarness

\* the program is run again, with the same flags apart from --dry-run, on
\* the tree a completed run left
Rerun ==
    /\ pc = "done"
    /\ run < MaxRuns
    /\ run' = run + 1
    /\ \E dry_run \in BOOLEAN : args' = ArgsOf(hist.changes, dry_run)
    /\ stack' = <<[mode |-> "Root", path |-> <<>>, pending |-> read_dir(fs, <<>>)]>>
    /\ hist' = [hist EXCEPT !.start = fs, !.removed = {}, !.seen = {}, !.wrote = {},
                            !.files = EmptyFiles]
    /\ deb_files' = EmptyFiles
    /\ toml_found' = FALSE
    /\ pc' = "from"
    /\ err' = <<>>
    /\ stdout' = {}
    /\ queue' = [required |-> <<>>, optional |-> {}]
    /\ UNCHANGED <<fs, classified, written, resolved>>

Next == ScanEntry \/ ScanReturn \/ FromEntry \/ FromRest \/ ForgeWrite \/ ForgeDone
        \/ Rerun

Spec == Init /\ [][Next]_vars

(***************************************************************************)
(* The pure functions, each applied to an input drawn from its input set.  *)
(***************************************************************************)
Idle ==
    /\ fs = [dirs |-> {}, files |-> EmptyFiles, others |-> {}]
    /\ args = ArgsOf({}, FALSE)
    /\ stack = <<>>
    /\ deb_files = EmptyFiles
    /\ toml_found = FALSE
    /\ pc = "idle"
    /\ err = <<>>
    /\ stdout = {}
    /\ queue = [required |-> <<>>, optional |-> {}]
    /\ run = 0
    /\ hist = [changes |-> {}, start |-> [dirs |-> {}, files |-> EmptyFiles, others |-> {}],
               removed |-> {}, seen |-> {}, wrote |-> {}, files |-> EmptyFiles, first |-> <<>>]

RunVars == <<fs, args, stack, deb_files, toml_found, pc, err, stdout, queue, run, hist>>

InitClassify ==
    /\ Idle
    /\ \E n \in ClassifyNames : classified = [name |-> n, result |-> None, done |-> FALSE]
    /\ written = [v |-> Variables(<<>>, <<>>, "Amd64"), file_type |-> None,
                  input |-> <<>>, dest |-> <<>>, output |-> <<>>, done |-> FALSE]
    /\ resolved = [input |-> <<>>, result |-> None, done |-> FALSE]

\* a directory entry of that name is classified
Classify ==
    /\ ~classified.done
    /\ classified' = [classified EXCEPT !.result = debian_file(classified.name),
                                        !.done = TRUE]
    /\ UNCHANGED <<RunVars, written, resolved>>

SpecClassify == InitClassify /\ [][Classify]_vars

InitWrite ==
    /\ Idle
    /\ classified = [name |-> <<>>, result |-> None, done |-> FALSE]
    /\ \E v \in HarnessVariables, t \in FileTypes, b \in InputTexts :
        written = [v |-> v, file_type |-> t, input |-> b, dest |-> <<>>,
                   output |-> <<>>, done |-> FALSE]
    /\ resolved = [input |-> <<>>, result |-> None, done |-> FALSE]

\* Variables::write_file on one (input, file_type)
Write ==
    /\ ~written.done
    /\ written' = [written EXCEPT
                      !.dest = output_path(written.v, written.file_type),
                      !.output = write_file(written.v, written.input, written.file_type),
                      !.done = TRUE]
    /\ UNCHANGED <<RunVars, classified, resolved>>

SpecWrite == InitWrite /\ [][Write]_vars

InitResolve ==
    /\ Idle
    /\ classified = [name |-> <<>>, result |-> None, done |-> FALSE]
    /\ written = [v |-> Variables(<<>>, <<>>, "Amd64"), file_type |-> None,
                  input |-> <<>>, dest |-> <<>>, output |-> <<>>, done |-> FALSE]
    /\ \E s \in TargetInputs : resolved = [input |-> s, result |-> None, done |-> FALSE]

\* Args::parse, `-t <value>`: Architecture::from(value)
Resolve ==
    /\ ~resolved.done
    /\ resolved' = [resolved EXCEPT !.result = Architecture_from(resolved.input),
                                    !.done = TRUE]
    /\ UNCHANGED <<RunVars, classified, written>>

SpecResolve == InitResolve /\ [][Resolve]_vars

(***************************************************************************)
(* Properties of a run.                                                    *)
(***************************************************************************)
\* the entries classified to role r so far in this run
SeenOf(r) == {x[2] : x \in {y \in hist.seen : y[1] = r}}

DuplicateErrors == {DuplicateError(r) : r \in FileTypes}
MissingErrors == {MissingError(r) : r \in FileTypes}

\* the traversal of Forge::from ran to its end
TraversalDone ==
    \/ pc \in {"exited", "forge", "done"}
    \/ pc = "panicked" /\ err \notin DuplicateErrors

\* the required roles no entry was classified to
MissingRoles == {r \in Range(Required) : SeenOf(r) = {}}

\* the files of a tree that lie where the scanner classifies files: at the
\* top level, anywhere under assets or debian, directly in build, and
\* anywhere under build/debian
Scanned(f) ==
    {p \in DOMAIN f.files :
        \/ Len(p) = 1
        \/ p[1] \in {<<"a","s","s","e","t","s">>, <<"d","e","b","i","a","n">>}
        \/ p[1] = <<"b","u","i","l","d">> /\ (Len(p) = 2 \/ p[2] = <<"d","e","b","i","a","n">>)}

\* the (role, path) pairs a full traversal of the tree classifies
Classifiable(f) ==
    {<<debian_file(file_name(p)), p>> :
        p \in {q \in Scanned(f) : debian_file(file_name(q)) # None}}

HasDuplicate(f) ==
    \E x \in Classifiable(f), y \in Classifiable(f) : x[1] = y[1] /\ x[2] # y[2]

\* binary name and version come from the flags or from Cargo.toml
ManifestResolved(f) ==
    "flags" \in hist.changes \/ <<<<"C","a","r","g","o",".","t","o","m","l">>>> \in DOMAIN f.files

\* how a run over the tree it started on must end
ExpectedOutcome ==
    IF HasDuplicate(hist.start) THEN "duplicate"
    ELSE IF ~ManifestResolved(hist.start) THEN "manifest"
    ELSE IF \E r \in Range(Required) :
                \A x \in Classifiable(hist.start) : x[1] # r THEN "missing"
    ELSE "valid"

\* how the run ended
Outcome ==
    IF pc = "panicked"
    THEN IF err \in DuplicateErrors THEN "duplicate"
         ELSE IF err \in MissingErrors THEN "missing"
         ELSE "manifest"
    ELSE "valid"

RunEnded == pc \in {"panicked", "exited", "done"}

\* C1: the Classified File Set holds at most one source path per role; the
\* second file classified to a role ends the run at once with the duplicate
\* error naming that role, before anything is materialized; a first file of
\* a role is inserted without error.
C1_OnePathPerRole ==
    /\ \A r \in FileTypes :
        /\ Cardinality(SeenOf(r)) <= 2
        /\ Cardinality(SeenOf(r)) = 2 =>
               /\ pc = "panicked"
               /\ err = DuplicateError(r)
               /\ hist.wrote = {}
               /\ Staged(fs) = Staged(hist.start) \/ Staged(fs) = EmptyFiles
        /\ pc = "from" => /\ r \in DOMAIN deb_files <=> SeenOf(r) # {}
                          /\ r \in DOMAIN deb_files => SeenOf(r) = {deb_files[r]}
    /\ err \in DuplicateErrors =>
           \E r \in FileTypes : err = DuplicateError(r) /\ Cardinality(SeenOf(r)) = 2

C1_Witness ==
    /\ pc = "panicked"
    /\ err = DuplicateError("Icon128")
    /\ SeenOf("Icon128") = {<<<<"a","s","s","e","t","s">>, <<"i","c","o","n","-","1","2","8",".","p","n","g">>>>,
                            <<<<"a","s","s","e","t","s">>, <<"i","c","o","n","1","2","8",".","p","n","g">>>>}

\* C2 as stated: after the full traversal a missing Control, Changelog or
\* Copyright always ends the run in the error naming a missing role, with
\* nothing materialized.
C2_AsStated ==
    (TraversalDone /\ MissingRoles # {}) =>
        /\ pc = "panicked"
        /\ err \in {MissingError(r) : r \in MissingRoles}
        /\ hist.wrote = {}

\* C2, amended: after the full traversal a missing Control, Changelog or
\* Copyright ends the run in a fatal error with nothing materialized and no
\* staging tree created; the error names the first missing role in the
\* order Control, Changelog, Copyright when binary name and version are
\* resolved, and Cargo.toml when they are not.  Materialization starts only
\* with all three roles present.
C2_MissingRequiredIsFatal ==
    /\ (TraversalDone /\ MissingRoles # {}) =>
        /\ pc = "panicked"
        /\ hist.wrote = {}
        /\ DOMAIN Staged(fs) \subseteq DOMAIN Staged(hist.start)
        /\ IF args.binary_name # <<>> /\ args.version # <<>>
           THEN \E i \in 1..Len(Required) :
                    /\ err = MissingError(Required[i])
                    /\ Required[i] \in MissingRoles
                    /\ \A j \in 1..(i-1) : Required[j] \notin MissingRoles
           ELSE err \in {TomlParseError, TomlMissingError}
    /\ pc \in {"forge", "done"} =>
        /\ MissingRoles = {}
        /\ Range(Required) \subseteq DOMAIN hist.files

C2_Witness ==
    /\ pc = "panicked"
    /\ err = MissingError("Changelog")
    /\ MissingRoles = {"Changelog", "Copyright"}
    /\ ~args.dry_run

\* C3: the binary is looked for at <project_dir>/<platform_bin_subpath>/
\* <binary_name> before any scanning, its absence is fatal, and every state
\* that reaches materialization holds Binary next to Control, Changelog and
\* Copyright, the binary being copied to usr/local/bin.
C3_BinaryRequired ==
    /\ pc \in {"forge", "done"} => "Binary" \in DOMAIN hist.files
    /\ pc = "done" =>
           output_path(ProjectVars, "Binary") \in DOMAIN fs.files
    /\ "no_binary" \in hist.changes => hist.seen = {} /\ pc \in {"from", "panicked"}

C3_Witness ==
    /\ pc = "done"
    /\ get_binary_path(ProjectVars) \in DOMAIN fs.files
    /\ "Binary" \notin DOMAIN hist.files

\* C4: a dry run leaves the file system as it found it: nothing is staged,
\* build/tmp is not removed and nothing is materialized; it ends as a real
\* run over the same tree ends (duplicate role, missing required role), and
\* otherwise exits successfully having reported each classified file.
C4_DryRunFrame ==
    /\ args.dry_run =>
        /\ fs = hist.start
        /\ hist.removed = {} /\ hist.wrote = {}
        /\ pc \notin {"forge", "done"}
        /\ pc = "exited" =>
               stdout = {FoundLine(x[1]) : x \in Classifiable(hist.start)}
                        \cup {ValidLine}
    /\ RunEnded =>
        /\ Outcome = ExpectedOutcome
        /\ pc = "exited" <=> (args.dry_run /\ ExpectedOutcome = "valid")

C4_Witness ==
    /\ args.dry_run
    /\ pc = "exited"
    /\ <<<<"b","u","i","l","d">>, <<"t","m","p">>, <<"d","i","s","t">>, <<"c","o","n","t","r","o","l">>>> \in DOMAIN fs.files
    /\ FoundLine("Icon128") \in stdout

\* C5: the only directory the scanner removes is <project_dir>/build/tmp,
\* and only outside a dry run; a directory named tmp under assets, debian
\* or build/debian is scanned like any other and stays; no source file is
\* modified or removed.
C5_OnlyBuildTmpRemoved ==
    /\ hist.removed \subseteq {<<<<"b","u","i","l","d">>, <<"t","m","p">>>>}
    /\ args.dry_run => hist.removed = {}
    /\ \A d \in hist.start.dirs :
           ~IsPrefix(<<<<"b","u","i","l","d">>, <<"t","m","p">>>>, d) => d \in fs.dirs
    /\ \A p \in DOMAIN hist.start.files :
           ~IsPrefix(<<<<"b","u","i","l","d">>, <<"t","m","p">>>>, p) =>
               p \in DOMAIN fs.files /\ fs.files[p] = hist.start.files[p]
    /\ hist.start.others = fs.others
    /\ TraversalDone =>
           \A x \in Classifiable(hist.start) :
               <<"t","m","p">> \in Range(x[2]) => x \in hist.seen

C5_Witness ==
    /\ pc = "done"
    /\ hist.removed = {<<<<"b","u","i","l","d">>, <<"t","m","p">>>>}
    /\ <<<<"b","u","i","l","d">>, <<"d","e","b","i","a","n">>, <<"t","m","p">>>> \in fs.dirs
    /\ <<"PostInst", <<<<"b","u","i","l","d">>, <<"d","e","b","i","a","n">>, <<"t","m","p">>, <<"p","o","s","t","i","n","s","t">>>>>> \in hist.seen

\* the staging tree Forge::forge must leave for the classified files
ExpectedStaged ==
    {<<output_path(ProjectVars, t),
       write_file(ProjectVars, hist.start.files[hist.files[t]], t)>> :
        t \in DOMAIN hist.files}

\* C6: a completed run leaves exactly the images of the classified files,
\* whatever the order they were written in; a run that follows a completed
\* run on the same inputs succeeds too and, when it is a real run, leaves
\* the same staged files with the same contents; no file under build/tmp is
\* ever classified.
C6_RerunIdempotent ==
    /\ \A x \in hist.seen : ~IsPrefix(<<<<"b","u","i","l","d">>, <<"t","m","p">>>>, x[2])
    /\ run > 1 => pc # "panicked"
    /\ pc = "done" =>
        /\ {<<p, Staged(fs)[p]>> : p \in DOMAIN Staged(fs)} = ExpectedStaged
        /\ hist.first # <<>> /\ Staged(fs) = hist.first[1]
    /\ (run > 1 /\ pc = "exited") => Staged(fs) = hist.first[1]

C6_Witness ==
    /\ run = 2
    /\ pc = "done"
    /\ hist.removed = {<<<<"b","u","i","l","d">>, <<"t","m","p">>>>}
    /\ "stale" \in hist.changes
    /\ Cardinality(DOMAIN Staged(fs)) = 4

(***************************************************************************)
(* Properties of the classifier, the materializer and the resolver.        *)
(***************************************************************************)
\* the reserved basenames and their roles
ReservedTable ==
    {<<<<"c","o","n","t","r","o","l">>, "Control">>, <<<<"c","h","a","n","g","e","l","o","g">>, "Changelog">>,
     <<<<"c","o","p","y","r","i","g","h","t">>, "Copyright">>, <<<<"i","n","s","t","a","l","l">>, "Install">>,
     <<<<"p","r","e","i","n","s","t">>, "PreInst">>, <<<<"p","o","s","t","i","n","s","t">>, "PostInst">>,
     <<<<"p","r","e","r","m">>, "PreRm">>, <<<<"p","o","s","t","r","m">>, "PostRm">>,
     <<<<"c","o","n","f","f","i","l","e","s">>, "ConfFiles">>, <<<<"w","a","t","c","h">>, "Watch">>,
     <<<<"f","o","r","m","a","t">>, "Format">>, <<<<"d","i","r","s">>, "Dirs">>, <<<<"d","o","c","s">>, "Docs">>,
     <<<<"m","e","n","u">>, "Menu">>, <<<<"m","a","n","p","a","g","e","s">>, "ManPages">>,
     <<<<"d","e","s","k","t","o","p">>, "Desktop">>}

\* the width tokens in their fixed order, with their icon roles
WidthTable ==
    << <<<<"6","4">>, "Icon64">>, <<<<"1","2","8">>, "Icon128">>, <<<<"2","5","6">>, "Icon256">>,
       <<<<"5","1","2">>, "Icon512">> >>

IconRoles == {"Icon64", "Icon128", "Icon256", "Icon512"}

\* the text after the last "." of a name that has one
ExtensionOf(n) ==
    LET last == CHOOSE i \in 1..Len(n) :
                    n[i] = "." /\ \A j \in (i+1)..Len(n) : n[j] # "."
    IN  SubSeq(n, last + 1, Len(n))

\* C7: classify follows the rules in order: extension desktop -> Desktop;
\* an icon extension -> the icon role of the first width token (64, 128,
\* 256, 512) the file name contains, none when it contains none; any other
\* extension -> none; no extension -> the role of the reserved basename the
\* name equals, else none.
C7_ClassifyRules ==
    classified.done =>
        LET n == classified.name
            r == classified.result
            present == {i \in 1..Len(WidthTable) : contains(n, WidthTable[i][1])}
        IN  IF "." \in Range(n)
            THEN IF ExtensionOf(n) = <<"d","e","s","k","t","o","p">> THEN r = "Desktop"
                 ELSE IF ExtensionOf(n) \in {<<"p","n","g">>, <<"j","p","g">>, <<"j","p","e","g">>, <<"t","i","f","f">>, <<"s","v","g">>}
                 THEN /\ present = {} => r = None
                      /\ \A i \in present :
                             (\A j \in present : i <= j) => r = WidthTable[i][2]
                      /\ \A i \in present : present = {i} => r = WidthTable[i][2]
                 ELSE r = None
            ELSE /\ \A x \in ReservedTable : x[1] = n => r = x[2]
                 /\ (\A x \in ReservedTable : x[1] # n) => r = None

C7_Witness ==
    /\ classified.done
    /\ classified.name = <<"2","5","6","4",".","p","n","g">>
    /\ classified.result = "Icon64"

\* the staging directory of the package
StagingDir(v) ==
    <<<<"b","u","i","l","d">>, <<"t","m","p">>, <<"d","i","s","t">>, <<"l","i","n","u","x">>,
      v.linux_binary_name \o <<"-">> \o v.version>>

\* the subpath of a role under the staging directory
SubpathOf(t, v) ==
    IF t \in {"Changelog", "Copyright"}
    THEN <<<<"u","s","r">>, <<"s","h","a","r","e">>, <<"d","o","c">>, v.linux_binary_name>>
    ELSE IF t \in IconRoles
    THEN <<<<"u","s","r">>, <<"s","h","a","r","e">>, <<"i","c","o","n","s">>, <<"h","i","c","o","l","o","r">>,
           LET w == (CHOOSE i \in 1..Len(WidthTable) : WidthTable[i][2] = t)
           IN  WidthTable[w][1] \o <<"x">> \o WidthTable[w][1],
           <<"a","p","p","s">>>>
    ELSE IF t = "Binary" THEN <<<<"u","s","r">>, <<"l","o","c","a","l">>, <<"b","i","n">>>>
    ELSE IF t = "Desktop" THEN <<<<"u","s","r">>, <<"s","h","a","r","e">>, <<"a","p","p","l","i","c","a","t","i","o","n","s">>>>
    ELSE IF t = "Format" THEN <<<<"D","E","B","I","A","N">>, <<"s","o","u","r","c","e">>>>
    ELSE <<<<"D","E","B","I","A","N">>>>

\* the conventional Debian file name of a role: its reserved basename
ConventionalName(t) == (CHOOSE x \in ReservedTable : x[2] = t)[1]

\* C8 as stated: the destination is the staging directory, the role's
\* subpath and the role's file name, where only the icons and Desktop are
\* named from the Linux-normalized binary name and every other role has a
\* file name that does not depend on the project; no two roles share a
\* destination.
C8_AsStated ==
    written.done =>
        LET t == written.file_type
            v == written.v
            dest == written.dest
        IN  /\ SubSeq(dest, 1, Len(dest) - 1) = StagingDir(v) \o SubpathOf(t, v)
            /\ t \in IconRoles =>
                   dest[Len(dest)] = v.linux_binary_name \o <<".","p","n","g">>
            /\ t = "Desktop" =>
                   dest[Len(dest)] = v.linux_binary_name \o <<".","d","e","s","k","t","o","p">>
            /\ t \notin IconRoles \cup {"Desktop"} =>
                   \A v2 \in HarnessVariables :
                       output_path(v2, t)[Len(output_path(v2, t))] = dest[Len(dest)]
            /\ \A t2 \in FileTypes \ {t} : output_path(v, t2) # dest

\* C8, amended: as stated, except that the binary too is named from the
\* Linux-normalized binary name (it is written as usr/local/bin/
\* <linux_binary_name>); the roles other than the icons, Desktop and Binary
\* are named by their conventional Debian file name.
C8_Destinations ==
    written.done =>
        LET t == written.file_type
            v == written.v
            dest == written.dest
        IN  /\ SubSeq(dest, 1, Len(dest) - 1) = StagingDir(v) \o SubpathOf(t, v)
            /\ dest[Len(dest)] =
                   IF t \in IconRoles THEN v.linux_binary_name \o <<".","p","n","g">>
                   ELSE IF t = "Desktop" THEN v.linux_binary_name \o <<".","d","e","s","k","t","o","p">>
                   ELSE IF t = "Binary" THEN v.linux_binary_name
                   ELSE ConventionalName(t)
            /\ \A t2 \in FileTypes \ {t} : output_path(v, t2) # dest

C8_Witness ==
    /\ written.done
    /\ written.file_type = "Binary"
    /\ written.dest = <<<<"b","u","i","l","d">>, <<"t","m","p">>, <<"d","i","s","t">>, <<"l","i","n","u","x">>, <<"m","y","-","a","p","p","-","1",".","0">>,
                        <<"u","s","r">>, <<"l","o","c","a","l">>, <<"b","i","n">>, <<"m","y","-","a","p","p">>>>

\* the five replacements, applied to a line in their fixed order
Substituted(line, v) ==
    replace(replace(replace(replace(replace(line,
        <<"$","B","i","n","a","r","y","N","a","m","e">>, v.binary_name),
        <<"$","L","i","n","u","x","B","i","n","a","r","y","N","a","m","e">>, v.linux_binary_name),
        <<"$","V","e","r","s","i","o","n">>, v.version),
        <<"$","T","a","r","g","e","t">>, target(v.architecture)),
        <<"$","A","r","c","h","i","t","e","c","t","u","r","e">>, short(v.architecture))

\* the number of characters of the first k output lines, newlines included
RECURSIVE OutputOffset(_, _, _)
OutputOffset(src, v, k) ==
    IF k = 0 THEN 0
    ELSE OutputOffset(src, v, k - 1) + Len(Substituted(src[k], v)) + 1

\* C9: for a textual role the output holds one line per source line, in
\* order, each the source line with the five replacements applied in the
\* order $BinaryName, $LinuxBinaryName, $Version, $Target, $Architecture
\* and each ended by one newline; for the icons and the binary the output
\* is the source, unchanged.
C9_WriteFile ==
    written.done =>
        LET src == lines(written.input)
            out == written.output
            v   == written.v
        IN  IF written.file_type \in IconRoles \cup {"Binary"}
            THEN out = written.input
            ELSE /\ Len(out) = OutputOffset(src, v, Len(src))
                 /\ \A k \in 1..Len(src) :
                        LET from == OutputOffset(src, v, k - 1)
                            to   == OutputOffset(src, v, k)
                        IN  /\ SubSeq(out, from + 1, to - 1) = Substituted(src[k], v)
                            /\ out[to] = "\n"
                 /\ (written.input = <<"A","r","c","h","i","t","e","c","t","u","r","e",":"," ","$","A","r","c","h","i","t","e","c","t","u","r","e","\n">>
                     /\ v.architecture = "Arm64") =>
                        out = <<"A","r","c","h","i","t","e","c","t","u","r","e",":"," ","a","r","m","6","4","\n">>

C9_Witness ==
    /\ written.done
    /\ written.file_type = "Control"
    /\ written.v.architecture = "Arm64"
    /\ written.input = <<"A","r","c","h","i","t","e","c","t","u","r","e",":"," ","$","A","r","c","h","i","t","e","c","t","u","r","e","\r","\n","$","B","i","n","a","r","y","N","a","m","e"," ","$","L","i","n","u","x","B","i","n","a","r","y","N","a","m","e">>
    /\ written.output = <<"A","r","c","h","i","t","e","c","t","u","r","e",":"," ","a","r","m","6","4","\n","m","y","_","a","p","p"," ","m","y","-","a","p","p","\n">>

\* C10: every input is resolved, whatever its letter case, to one variant
\* or to the fatal input error; "amd64", "x86_64-unknown-linux-gnu" and
\* "arm" are accepted; the target triple and the Debian short token of a
\* variant both resolve to that variant.
C10_AsStated ==
    resolved.done =>
        LET low == make_ascii_lowercase(resolved.input) IN
        /\ resolved.result \in Architectures \cup {InvalidTarget}
        /\ resolved.result = Architecture_from(low)
        /\ low \in {<<"a","m","d","6","4">>, <<"x","8","6","_","6","4","-","u","n","k","n","o","w","n","-","l","i","n","u","x","-","g","n","u">>, <<"a","r","m">>} =>
               resolved.result \in Architectures
        /\ \A a \in Architectures :
               low \in {target(a), short(a)} => resolved.result = a

C10_Witness ==
    /\ resolved.done
    /\ resolved.input = <<"A","M","D","6","4">>
    /\ resolved.result = InvalidTarget

(***************************************************************************)
(* Properties of the Build-mode scan.                                      *)
(***************************************************************************)
\* the classified entries that lie under <project_dir>/build
SeenUnderBuild == {x \in hist.seen : x[2][1] = <<"b","u","i","l","d">>}

\* C11 as stated: a Build-mode scan classifies no file itself: no regular
\* file directly in build is inserted into the Classified File Set, and the
\* files classified under build all lie inside build/debian.
C11_AsStated ==
    \A x \in SeenUnderBuild : Len(x[2]) >= 3 /\ x[2][2] = <<"d","e","b","i","a","n">>

\* C11, amended: a Build-mode scan classifies the regular files that are
\* immediate children of build, as the other modes do; below that level the
\* only files classified are those inside build/debian, scanned in Debian
\* mode, and no other subdirectory of build is ever entered.
C11_BuildScan ==
    /\ \A x \in SeenUnderBuild : Len(x[2]) = 2 \/ x[2][2] = <<"d","e","b","i","a","n">>
    /\ \A i \in 1..Len(stack) :
           (stack[i].mode # "Root" /\ stack[i].path[1] = <<"b","u","i","l","d">>) =>
               IF Len(stack[i].path) = 1 THEN stack[i].mode = "Build"
               ELSE stack[i].mode = "Debian" /\ stack[i].path[2] = <<"d","e","b","i","a","n">>
    /\ \A i \in 1..Len(stack) : stack[i].mode = "Build" => stack[i].path = <<<<"b","u","i","l","d">>>>
    /\ TraversalDone =>
           \A x \in Classifiable(hist.start) :
               (x[2][1] = <<"b","u","i","l","d">> /\ Len(x[2]) = 2) => x \in hist.seen

C11_Witness ==
    /\ pc = "done"
    /\ hist.files["Control"] = <<<<"b","u","i","l","d">>, <<"c","o","n","t","r","o","l">>>>
    /\ output_path(ProjectVars, "Control") \in DOMAIN fs.files

====
